---------------------------- MODULE Spec2Model ----------------------------
(***************************************************************************)
(* Project Apex telemetry validators.                                      *)
(*                                                                         *)
(* The repository ships two validator services:                            *)
(*   "prod" : src/src/production_validator_service_prod.py                 *)
(*            main() receives UDP datagrams and puts them, undecoded, on   *)
(*            the bounded PACKET_QUEUE; the daemon thread                  *)
(*            processing_worker() unpacks, classifies and posts them.      *)
(*   "demo" : src/demo/production_validator_service_v3.py                  *)
(*            TelemetryIngestor / ValidationWorker / SplunkForwarder.      *)
(* A run executes one of them; `service` records which.                    *)
(*                                                                         *)
(* Units.  vertical velocity: mm/s (integer);  energy: microjoule, so that *)
(* 0.5 * 798 * vz^2 is computed exactly;  temperature: 0.1 degC;           *)
(* clock of the production service: seconds.  Demo service: ride height in *)
(* thousandths (so ride_height_raw * 1000 is an integer), clock in units   *)
(* of 10 ms.                                                               *)
(***************************************************************************)
EXTENDS Integers, Sequences, FiniteSets, TLC

\* ------------------------------------------------------------- bounds ---
\* Capacity of PACKET_QUEUE.  The program sets maxsize=2048; the model runs
\* the same put_nowait/get protocol on a small capacity.
MaxSize == 2
\* Number of datagrams the socket delivers in one run.
MaxRecv == 4
\* Backlog above which TelemetryIngestor.run clears its queue.  The program
\* tests qsize() > 50; the model runs the same test on a small backlog.
LagLimit == 2
\* Value of time.time() when the service starts (any value above the log
\* cooldowns: the module-level timestamps start at 0.0).
StartTime == 100
\* Longest run, in clock units after StartTime (production, demo).
MaxElapsed == 5
MaxElapsedDemo == 12

\* Largest magnitude of the vertical velocity (unit 10 mm/s) and of the demo's
\* ride height (unit 0.001) on which the energy functions are evaluated.
VzBound == 60

\* -------------------------------------------------- program constants ---
CAR_MASS_KG == 798
THERMAL_THRESHOLD_C == 1050
ENERGY_LIMIT_J == 100000000
THERMAL_ENERGY_LIMIT_J == 80000000
PACKET_SIZE == 34
ERROR_LOG_COOLDOWN == 5
SUCCESS_LOG_COOLDOWN == 60
SPLUNK_UPDATE_INTERVAL == 10
CRITICAL_ENERGY == 100

PLACEHOLDER_TOKEN == "REPLACE_WITH_SECURE_TOKEN"

\* '<d10sffff': width of the identifier field.
ID_FIELD_WIDTH == 10
\* Spacing of the float32 values, in the unit in which the codec's float
\* inputs are counted: a Python float (a double) has more mantissa bits than
\* the 'f' fields of the packet, so only every F32_SPACING-th input value is
\* a float32 (the program's ratio is 2^29; the model packs with the same
\* round-to-nearest-even on a ratio of 4).
F32_SPACING == 4

\* ------------------------------------------------------------- inputs ---
\* A datagram as the worker's code can tell datagrams apart:
\*   len      len(data)
\*   idok     bytes 8..17 decode as UTF-8
\*   speedok  the speed field is a finite float (int(round(speed)) raises
\*            ValueError / OverflowError on NaN / infinity)
\*   vz, temp the vertical_velocity and engine_temp fields
VzValues == {300, 470, -510}
TempValues == {1050, 1051}
ClockSteps == {0, 5}

\* The (vert_vel, engine_temp) pairs of the well-formed datagrams: in each
\* thermal mode one reading on either side of the limit that applies, with
\* 88.1 J (between the two limits) in both modes.
Readings == (VzValues \X TempValues) \ { <<300, 1050>>, <<-510, 1051>> }

WellFormed ==
    { [len |-> PACKET_SIZE, idok |-> TRUE, speedok |-> TRUE,
       vz |-> r[1], temp |-> r[2]] : r \in Readings }

Malformed ==
    { [len |-> 33, idok |-> TRUE, speedok |-> TRUE, vz |-> 300, temp |-> 1050],
      [len |-> 35, idok |-> TRUE, speedok |-> TRUE, vz |-> -510, temp |-> 1051],
      [len |-> PACKET_SIZE, idok |-> FALSE, speedok |-> TRUE, vz |-> -510, temp |-> 1051],
      [len |-> PACKET_SIZE, idok |-> TRUE, speedok |-> FALSE, vz |-> -510, temp |-> 1051] }

Datagrams == WellFormed \cup Malformed

\* A datagram of the demo service as its code can tell datagrams apart:
\*   json    data.decode('utf-8') and json.loads succeed
\*   isdict  the JSON value is an object (has .get)
\*   rhnum   ride_height_raw is absent or a number
\*   rh      ride_height_raw, in thousandths
DemoDatagrams ==
    { [json |-> FALSE, isdict |-> FALSE, rhnum |-> FALSE, rh |-> 0],
      [json |-> TRUE, isdict |-> FALSE, rhnum |-> FALSE, rh |-> 0],
      [json |-> TRUE, isdict |-> TRUE, rhnum |-> FALSE, rh |-> 0],
      [json |-> TRUE, isdict |-> TRUE, rhnum |-> TRUE, rh |-> 50],
      [json |-> TRUE, isdict |-> TRUE, rhnum |-> TRUE, rh |-> 100],
      [json |-> TRUE, isdict |-> TRUE, rhnum |-> TRUE, rh |-> -200] }
DemoClockSteps == {1, 10}

NoData == [id |-> 0]
NoVerdict == [id |-> 0]

VARIABLES
    service,                      \* which script runs
    SPLUNK_TOKEN,                 \* os.getenv("SPLUNK_TOKEN", placeholder)
    mainPc,                       \* main(): "start" | "loop" | "stopped" | "crashed"
    bind_failed,                  \* sock.bind raised OSError
    PACKET_QUEUE,                 \* queue.Queue(maxsize): items [id, pkt]
    unfinished_tasks,             \* Queue.unfinished_tasks (put / task_done)
    workerPc,                     \* processing_worker: "get" | "post"
    data,                         \* the worker's local `data` (last item got)
    verdict,                      \* the worker's locals vert_vel, engine_temp,
                                  \* energy_joules, thermal_mode, compliance_status
    QUEUE_FULL_WARNING_COOLDOWN,
    last_success_log_time,
    last_error_log_time,
    error_logs,                   \* clock values at which a sink failure was logged
    now,                          \* last value time.time() returned
    \* demo service
    telemetry_queue,              \* queue.Queue(): items [id, pkt], parsed packets
    ingestor_running,             \* TelemetryIngestor.running
    ingestorPc,                   \* TelemetryIngestor.run: "run" | "done"
    worker_running,               \* ValidationWorker.running
    last_sent_time,               \* ValidationWorker.last_sent_time
    current_time,                 \* the worker's local current_time
    \* history (not program state): what happened to each datagram
    received,                     \* number of datagrams recvfrom returned; the
                                  \* n-th datagram has id n
    accepted,                     \* ids in the order they were put on the queue
    rejected,                     \* ids the demo ingestor could not parse
    evicted,                      \* ids removed by the demo ingestor's clear()
    dropped,                      \* ids discarded on queue.Full
    dequeued,                     \* ids in the order PACKET_QUEUE.get returned them
    classified,                   \* every (input, output) of lines 140-151 so far
    nclassified,                  \* how many times lines 140-151 ran
    forwards,                     \* ids for which send_to_splunk was called
    posts,                        \* ids for which http_session.post was issued
    last_forward_time,            \* clock value at the most recent forward call
    finished                      \* ids whose task_done has been called

vars ==
    << service, SPLUNK_TOKEN, mainPc, bind_failed, PACKET_QUEUE, unfinished_tasks, workerPc,
       data, verdict, QUEUE_FULL_WARNING_COOLDOWN, last_success_log_time,
       last_error_log_time, error_logs, now, telemetry_queue, ingestor_running, ingestorPc,
       worker_running, last_sent_time, current_time, received, accepted,
       rejected, evicted, dropped, dequeued, classified, nclassified,
       forwards, posts, last_forward_time, finished >>

histVars ==
    << received, accepted, rejected, evicted, dropped, dequeued, classified,
       nclassified, forwards, posts, last_forward_time, finished >>
logVars == << QUEUE_FULL_WARNING_COOLDOWN, last_success_log_time, last_error_log_time,
             error_logs >>
\* state of the production service / of the demo service
prodVars == << SPLUNK_TOKEN, PACKET_QUEUE, unfinished_tasks, logVars >>
demoVars ==
    << telemetry_queue, ingestor_running, ingestorPc, worker_running,
       last_sent_time, current_time >>

\* ------------------------------------------------------------ helpers ---
\* time.time(): the clock never runs backwards; d is the time that passed
\* since the previous reading of the clock.
ClockOk(d) ==
    now + d <= StartTime + (IF service = "prod" THEN MaxElapsed ELSE MaxElapsedDemo)

\* ------------------------------------------------- classification -------
calculate_vertical_energy(vz) == (CAR_MASS_KG * (vz * vz)) \div 2

\* Mutation of thermal_mode_of: the threshold taken as inclusive.
thermal_mode_of_inclusive(engine_temp) ==
    IF engine_temp >= THERMAL_THRESHOLD_C THEN "HIGH_COMPRESSION" ELSE "STANDARD"

\* lines 142, 145-146
thermal_mode_of(engine_temp) ==
    IF engine_temp > THERMAL_THRESHOLD_C THEN "HIGH_COMPRESSION" ELSE "STANDARD"

\* Mutation of compliance_status_of: the 100 J limit in both branches.
compliance_status_of_one_limit(energy_joules, engine_temp) ==
    IF engine_temp > THERMAL_THRESHOLD_C
    THEN IF energy_joules > ENERGY_LIMIT_J
         THEN "CRITICAL: TORQUE_ANOMALY"
         ELSE "LEGAL"
    ELSE IF energy_joules > ENERGY_LIMIT_J
         THEN "VIOLATION_RISK"
         ELSE "LEGAL"

\* Mutation of compliance_status_of: the 80 J limit in both branches.
compliance_status_of_thermal_limit(energy_joules, engine_temp) ==
    IF engine_temp > THERMAL_THRESHOLD_C
    THEN IF energy_joules > THERMAL_ENERGY_LIMIT_J
         THEN "CRITICAL: TORQUE_ANOMALY"
         ELSE "LEGAL"
    ELSE IF energy_joules > THERMAL_ENERGY_LIMIT_J
         THEN "VIOLATION_RISK"
         ELSE "LEGAL"

\* Mutation of compliance_status_of: line 141 hoisted out of the loop, so a
\* reading that trips no limit keeps the previous reading's status.
compliance_status_of_sticky(energy_joules, engine_temp) ==
    LET previous == IF verdict.id = 0 THEN "LEGAL" ELSE verdict.compliance_status IN
    IF engine_temp > THERMAL_THRESHOLD_C
    THEN IF energy_joules > THERMAL_ENERGY_LIMIT_J
         THEN "CRITICAL: TORQUE_ANOMALY"
         ELSE previous
    ELSE IF energy_joules > ENERGY_LIMIT_J
         THEN "VIOLATION_RISK"
         ELSE previous

\* Mutation of compliance_status_of: the critical status under another name.
compliance_status_of_thermal_squat(energy_joules, engine_temp) ==
    IF engine_temp > THERMAL_THRESHOLD_C
    THEN IF energy_joules > THERMAL_ENERGY_LIMIT_J
         THEN "CRITICAL_THERMAL_SQUAT"
         ELSE "LEGAL"
    ELSE IF energy_joules > ENERGY_LIMIT_J
         THEN "VIOLATION_RISK"
         ELSE "LEGAL"

\* lines 141, 145-151
compliance_status_of(energy_joules, engine_temp) ==
    IF engine_temp > THERMAL_THRESHOLD_C
    THEN IF energy_joules > THERMAL_ENERGY_LIMIT_J
         THEN "CRITICAL: TORQUE_ANOMALY"
         ELSE "LEGAL"
    ELSE IF energy_joules > ENERGY_LIMIT_J
         THEN "VIOLATION_RISK"
         ELSE "LEGAL"

\* lines 133-151 for one unpacked datagram: the worker's locals
Verdict(item) ==
    LET energy_joules == calculate_vertical_energy(item.pkt.vz) IN
    [ id |-> item.id,
      vert_vel |-> item.pkt.vz,
      engine_temp |-> item.pkt.temp,
      energy_joules |-> energy_joules,
      thermal_mode |-> thermal_mode_of(item.pkt.temp),
      compliance_status |-> compliance_status_of(energy_joules, item.pkt.temp) ]

\* What is remembered of a verdict: the reading's values and the outputs.
Observation(v) ==
    [ vert_vel |-> v.vert_vel, engine_temp |-> v.engine_temp,
      energy_joules |-> v.energy_joules, thermal_mode |-> v.thermal_mode,
      compliance_status |-> v.compliance_status ]

\* round(energy_joules, 2): to the nearest 0.01 J (10000 microjoule), ties to
\* the even neighbour.
round2(e) ==
    LET q == e \div 10000
        r == e % 10000
    IN  IF r > 5000 \/ (r = 5000 /\ q % 2 = 1)
        THEN (q + 1) * 10000
        ELSE q * 10000

\* lines 160-168: the "event" object of the payload handed to send_to_splunk,
\* built from the worker's locals v (the fields computed from the reading).
telemetry_event(v) ==
    [ vertical_energy |-> round2(v.energy_joules),
      engine_temp_c |-> v.engine_temp,
      compliance_status |-> v.compliance_status,
      thermal_mode |-> v.thermal_mode ]

\* ------------------------------------------------------------- Init -----
Init ==
    /\ \/ /\ service = "prod"
          /\ SPLUNK_TOKEN \in {PLACEHOLDER_TOKEN, "hec-token"}
       \/ /\ service = "demo"
          /\ SPLUNK_TOKEN = "hec-token"
    /\ mainPc = "start"
    /\ bind_failed = FALSE
    /\ PACKET_QUEUE = << >>
    /\ unfinished_tasks = 0
    /\ workerPc = "get"
    /\ data = NoData
    /\ verdict = NoVerdict
    /\ QUEUE_FULL_WARNING_COOLDOWN = 0
    /\ last_success_log_time = 0
    /\ last_error_log_time = 0
    /\ error_logs = << >>
    /\ now = StartTime
    /\ telemetry_queue = << >>
    /\ ingestor_running = TRUE
    /\ ingestorPc = "run"
    /\ worker_running = TRUE
    /\ last_sent_time = 0
    /\ current_time = 0
    /\ received = 0
    /\ accepted = << >>
    /\ rejected = {}
    /\ evicted = {}
    /\ dropped = {}
    /\ dequeued = << >>
    /\ classified = {}
    /\ nclassified = 0
    /\ forwards = << >>
    /\ posts = << >>
    /\ last_forward_time = 0
    /\ finished = {}

\* ------------------------------------------------ production: main() ----
\* lines 183-194: bind the socket, start the worker thread.
main_start ==
    /\ service = "prod"
    /\ mainPc = "start"
    /\ mainPc' = "loop"
    /\ UNCHANGED << service, bind_failed, workerPc, data, verdict, now >>
    /\ UNCHANGED << prodVars, demoVars, histVars >>

\* Mutation of main_bind_fails: the error is swallowed and main() goes on to
\* start the worker and to enter the receive loop.
main_bind_fails_ignored ==
    /\ service = "prod"
    /\ mainPc = "start"
    /\ bind_failed' = TRUE
    /\ mainPc' = "loop"
    /\ UNCHANGED << service, workerPc, data, verdict, now >>
    /\ UNCHANGED << prodVars, demoVars, histVars >>

\* line 184: sock.bind raises OSError; nothing catches it, main() ends
\* before the worker thread is created (line 193).
main_bind_fails ==
    /\ service = "prod"
    /\ mainPc = "start"
    /\ bind_failed' = TRUE
    /\ mainPc' = "crashed"
    /\ UNCHANGED << service, workerPc, data, verdict, now >>
    /\ UNCHANGED << prodVars, demoVars, histVars >>

\* Mutation of put_nowait_full: the capacity test off by one.
put_nowait_full_off_by_one == Len(PACKET_QUEUE) > MaxSize

\* PACKET_QUEUE.put_nowait(data), line 202: raises queue.Full when the queue
\* holds maxsize items.
put_nowait_full == Len(PACKET_QUEUE) >= MaxSize

\* Mutation of put_nowait_waits: a blocking put(), which waits for a free slot.
put_waits == put_nowait_full

\* put_nowait is put(block=False): the caller never waits for a free slot.
put_nowait_waits == FALSE

\* Mutation of put_nowait: the oldest datagram makes room for the new one.
put_nowait_evict_oldest(item) ==
    IF put_nowait_full
    THEN Append(Tail(PACKET_QUEUE), item)
    ELSE Append(PACKET_QUEUE, item)

\* Mutation of put_nowait: a full queue is cleared for the new datagram.
put_nowait_clear(item) ==
    IF put_nowait_full THEN << item >> ELSE Append(PACKET_QUEUE, item)

\* Mutation of put_nowait: the new datagram replaces the newest queued one.
put_nowait_replace_newest(item) ==
    IF put_nowait_full
    THEN Append(SubSeq(PACKET_QUEUE, 1, Len(PACKET_QUEUE) - 1), item)
    ELSE Append(PACKET_QUEUE, item)

\* The queue after put_nowait(item): on queue.Full nothing was stored.
put_nowait(item) ==
    IF put_nowait_full THEN PACKET_QUEUE ELSE Append(PACKET_QUEUE, item)

\* lines 199-208: one iteration of the hot loop.
main_recv(pkt, d) ==
    /\ service = "prod"
    /\ mainPc = "loop"
    /\ received < MaxRecv
    /\ ClockOk(d)
    /\ ~put_nowait_waits
    /\ received' = received + 1
    /\ LET item == [id |-> received + 1, pkt |-> pkt] IN
       /\ PACKET_QUEUE' = put_nowait(item)
       /\ IF ~put_nowait_full
          THEN /\ unfinished_tasks' = unfinished_tasks + 1
               /\ accepted' = Append(accepted, item.id)
               /\ UNCHANGED << dropped, now, QUEUE_FULL_WARNING_COOLDOWN >>
          ELSE \* lines 203-208
               /\ dropped' = dropped \cup {item.id}
               /\ now' = now + d
               /\ QUEUE_FULL_WARNING_COOLDOWN' =
                      IF now' - QUEUE_FULL_WARNING_COOLDOWN >= ERROR_LOG_COOLDOWN
                      THEN now' ELSE QUEUE_FULL_WARNING_COOLDOWN
               /\ UNCHANGED << unfinished_tasks, accepted >>
    /\ UNCHANGED << service, bind_failed, SPLUNK_TOKEN, mainPc, workerPc, data, verdict,
                    last_success_log_time, last_error_log_time, error_logs,
                    demoVars,
                    rejected, evicted, dequeued, classified, nclassified,
                    forwards, posts, last_forward_time, finished >>

\* lines 214-215: recvfrom raised; the loop continues.
main_recv_error ==
    /\ service = "prod"
    /\ mainPc = "loop"
    /\ UNCHANGED vars

\* lines 210-213: KeyboardInterrupt ends main(); the worker is a daemon
\* thread and dies with the process.
main_keyboard_interrupt ==
    /\ service = "prod"
    /\ mainPc = "loop"
    /\ mainPc' = "stopped"
    /\ UNCHANGED << service, bind_failed, workerPc, data, verdict, now >>
    /\ UNCHANGED << prodVars, demoVars, histVars >>

\* ------------------------------------- production: processing_worker ----
WorkerAlive == service = "prod" /\ mainPc = "loop"

\* lines 119-123: get(timeout=1.0) raised queue.Empty.
processing_worker_empty ==
    /\ WorkerAlive
    /\ workerPc = "get"
    /\ PACKET_QUEUE = << >>
    /\ UNCHANGED vars

\* Mutation of error_log_due: every failure is logged.
error_log_always(t) == TRUE

\* lines 89, 105, 111: the test that guards logger.warning / logger.error.
error_log_due(t) == t - last_error_log_time >= ERROR_LOG_COOLDOWN

\* The throttled log of a failure, lines 88-91, 104-107, 110-113.
error_log_time(t) ==
    IF error_log_due(t) THEN t ELSE last_error_log_time

\* The log records of sink failures after a failure at clock value t.
error_logs_after(t) ==
    IF error_log_due(t) THEN Append(error_logs, t) ELSE error_logs

\* Mutation of has_packet_size: trailing bytes after the 34 are tolerated.
has_packet_size_at_least(pkt) == pkt.len >= PACKET_SIZE

\* line 127: len(data) == struct.calcsize('<d10sffff')
has_packet_size(pkt) == pkt.len = PACKET_SIZE

\* Mutation of worker_at_get: the send is handed to another thread and the
\* worker goes on to the next get at once.
worker_at_get_async == TRUE

\* lines 118-121, 172-173: send_to_splunk is called in the worker's own
\* thread, so the worker reaches its next get only after the call returned.
worker_at_get == workerPc = "get"

\* Mutation of token_is_placeholder: the request is issued whatever the token.
token_is_placeholder_ignored == FALSE

\* line 87: if SPLUNK_TOKEN == "REPLACE_ME_IN_PROD"
token_is_placeholder == SPLUNK_TOKEN = PLACEHOLDER_TOKEN

\* Mutation of pc_after_exception: the exception ends the worker thread.
pc_after_exception_dead == "dead"

\* lines 175-177: "except Exception" logs inside the "while True" loop, so
\* the worker goes on to its next get.
pc_after_exception == "get"

\* lines 121-173 up to the HTTP request: get, unpack, classify, build the
\* event and call send_to_splunk.
processing_worker_get(d) ==
    /\ WorkerAlive
    /\ worker_at_get
    /\ PACKET_QUEUE # << >>
    /\ ClockOk(d)
    /\ LET item == Head(PACKET_QUEUE) IN
       /\ PACKET_QUEUE' = Tail(PACKET_QUEUE)
       /\ data' = item
       /\ dequeued' = Append(dequeued, item.id)
       /\ IF ~has_packet_size(item.pkt)
          THEN \* lines 129-131
               /\ unfinished_tasks' = unfinished_tasks - 1
               /\ finished' = finished \cup {item.id}
               /\ UNCHANGED << workerPc, verdict, now, last_error_log_time, error_logs,
                               classified, nclassified, forwards, posts,
                               last_forward_time >>
          ELSE IF ~item.pkt.idok
          THEN \* line 134 raises UnicodeDecodeError; lines 175-177
               /\ unfinished_tasks' = unfinished_tasks - 1
               /\ finished' = finished \cup {item.id}
               /\ workerPc' = pc_after_exception
               /\ UNCHANGED << verdict, now, last_error_log_time, error_logs,
                               classified, nclassified, forwards, posts,
                               last_forward_time >>
          ELSE /\ verdict' = Verdict(item)
               /\ classified' = classified \cup {Observation(verdict')}
               /\ nclassified' = nclassified + 1
               /\ IF ~item.pkt.speedok
                  THEN \* line 162 raises; lines 175-177
                       /\ unfinished_tasks' = unfinished_tasks - 1
                       /\ finished' = finished \cup {item.id}
                       /\ workerPc' = pc_after_exception
                       /\ UNCHANGED << now, last_error_log_time, error_logs,
                                       forwards, posts, last_forward_time >>
                  ELSE \* line 172: send_to_splunk(telemetry_event, car_id)
                       /\ forwards' = Append(forwards, item.id)
                       /\ IF token_is_placeholder
                          THEN \* lines 87-92, then line 173
                               /\ now' = now + d
                               /\ last_forward_time' = now'
                               /\ last_error_log_time' = error_log_time(now')
                               /\ error_logs' = error_logs_after(now')
                               /\ unfinished_tasks' = unfinished_tasks - 1
                               /\ finished' = finished \cup {item.id}
                               /\ UNCHANGED << workerPc, posts >>
                          ELSE \* line 96: the request is on the wire
                               /\ posts' = Append(posts, item.id)
                               /\ last_forward_time' = now
                               /\ workerPc' = "post"
                               /\ UNCHANGED << now, last_error_log_time, error_logs,
                                               unfinished_tasks, finished >>
    /\ UNCHANGED << service, bind_failed, SPLUNK_TOKEN, mainPc, QUEUE_FULL_WARNING_COOLDOWN,
                    last_success_log_time, demoVars, received, accepted,
                    rejected, evicted, dropped >>

\* Mutation of send_again: a failed request is sent once more.
send_again_on_failure(r) == r # "200"

\* lines 94-113: send_to_splunk issues one request per call; whatever the
\* outcome r, it logs (throttled) and returns.
send_again(r) == FALSE

\* lines 96-113 and 173: the request returned (r = "200", "rejected") or
\* raised (r = "exception": timeout after 0.5 s, connection error).
processing_worker_post_returns(r, d) ==
    /\ WorkerAlive
    /\ workerPc = "post"
    /\ ClockOk(d)
    /\ now' = now + d
    /\ IF r = "200"
       THEN /\ last_success_log_time' =
                   IF now' - last_success_log_time >= SUCCESS_LOG_COOLDOWN
                   THEN now' ELSE last_success_log_time
            /\ UNCHANGED << last_error_log_time, error_logs >>
       ELSE /\ last_error_log_time' = error_log_time(now')
            /\ error_logs' = error_logs_after(now')
            /\ UNCHANGED last_success_log_time
    /\ IF send_again(r)
       THEN /\ posts' = Append(posts, data.id)
            /\ UNCHANGED << unfinished_tasks, finished, workerPc >>
       ELSE /\ unfinished_tasks' = unfinished_tasks - 1
            /\ finished' = finished \cup {data.id}
            /\ workerPc' = "get"
            /\ UNCHANGED posts
    /\ UNCHANGED << service, bind_failed, SPLUNK_TOKEN, mainPc, PACKET_QUEUE, data, verdict,
                    QUEUE_FULL_WARNING_COOLDOWN, demoVars, received, accepted,
                    rejected, evicted, dropped, dequeued, classified,
                    nclassified, forwards, last_forward_time >>

\* ----------------------------------------------------- demo: main() ----
\* lines 163-169: build the queue, the ingestor (which binds) and the worker,
\* start both threads.
demo_start ==
    /\ service = "demo"
    /\ mainPc = "start"
    /\ mainPc' = "loop"
    /\ UNCHANGED << service, bind_failed, workerPc, data, verdict, now >>
    /\ UNCHANGED << prodVars, demoVars, histVars >>

\* lines 72-76: bind raised OSError, exit(1) before any thread exists.
demo_bind_fails ==
    /\ service = "demo"
    /\ mainPc = "start"
    /\ bind_failed' = TRUE
    /\ mainPc' = "crashed"
    /\ UNCHANGED << service, workerPc, data, verdict, now >>
    /\ UNCHANGED << prodVars, demoVars, histVars >>

\* lines 173-178: KeyboardInterrupt; ingestor.stop(), worker.stop(), then the
\* joins wait for both threads.
demo_keyboard_interrupt ==
    /\ service = "demo"
    /\ mainPc = "loop"
    /\ mainPc' = "joining"
    /\ ingestor_running' = FALSE
    /\ worker_running' = FALSE
    /\ UNCHANGED << service, bind_failed, workerPc, data, verdict, now, prodVars,
                    telemetry_queue, ingestorPc, last_sent_time, current_time,
                    histVars >>

\* lines 177-178: both joins returned.
demo_joined ==
    /\ service = "demo"
    /\ mainPc = "joining"
    /\ ingestorPc = "done"
    /\ workerPc \in {"done", "dead"}
    /\ mainPc' = "stopped"
    /\ UNCHANGED << service, bind_failed, workerPc, data, verdict, now >>
    /\ UNCHANGED << prodVars, demoVars, histVars >>

DemoThreads == service = "demo" /\ mainPc \in {"loop", "joining"}

\* ------------------------------------------- demo: TelemetryIngestor ----
\* Mutation of lag_detected: the lag test fires one packet later.
lag_detected_late == Len(telemetry_queue) > LagLimit + 1

\* lines 89-94: the queue after one parsed packet was handed to it.
lag_detected == Len(telemetry_queue) > LagLimit

queue_after_put(item) ==
    IF lag_detected THEN << item >> ELSE Append(telemetry_queue, item)

\* line 85: json.loads(data.decode('utf-8')) of a datagram that parses: the
\* queue receives the parsed value, not the bytes.
json_loads(pkt) == [isdict |-> pkt.isdict, rhnum |-> pkt.rhnum, rh |-> pkt.rh]

\* lines 82-98: one iteration of run() in which recvfrom returned a datagram.
TelemetryIngestor_run(pkt) ==
    /\ DemoThreads
    /\ ingestorPc = "run"
    /\ ingestor_running
    /\ received < MaxRecv
    /\ received' = received + 1
    /\ LET item == [id |-> received + 1,
                    pkt |-> IF pkt.json THEN json_loads(pkt) ELSE pkt] IN
       IF ~pkt.json
       THEN \* line 85 raises; lines 97-98
            /\ rejected' = rejected \cup {item.id}
            /\ UNCHANGED << telemetry_queue, accepted, evicted >>
       ELSE /\ telemetry_queue' = queue_after_put(item)
            /\ accepted' = Append(accepted, item.id)
            /\ UNCHANGED rejected
            /\ evicted' =
                   IF lag_detected
                   THEN evicted \cup {telemetry_queue[i].id : i \in DOMAIN telemetry_queue}
                   ELSE evicted
    /\ UNCHANGED << service, bind_failed, mainPc, workerPc, data, verdict, now, prodVars,
                    ingestor_running, ingestorPc, worker_running,
                    last_sent_time, current_time, dropped, dequeued,
                    classified, nclassified, forwards, posts,
                    last_forward_time, finished >>

\* lines 95-96: recvfrom timed out after 0.2 s.
TelemetryIngestor_timeout ==
    /\ DemoThreads
    /\ ingestorPc = "run"
    /\ ingestor_running
    /\ UNCHANGED vars

\* line 82: the loop test fails after stop().
TelemetryIngestor_exit ==
    /\ DemoThreads
    /\ ingestorPc = "run"
    /\ ~ingestor_running
    /\ ingestorPc' = "done"
    /\ UNCHANGED << service, bind_failed, mainPc, workerPc, data, verdict, now, prodVars,
                    telemetry_queue, ingestor_running, worker_running,
                    last_sent_time, current_time, histVars >>

\* -------------------------------------------- demo: ValidationWorker ----
\* lines 105-114: InternalValidator.validate
validate(packet) ==
    LET energy == IF packet.rh >= 0 THEN packet.rh ELSE -packet.rh IN
    [ status |-> IF energy > CRITICAL_ENERGY THEN "CRITICAL" ELSE "STABLE",
      oscillation_energy |-> energy ]

\* line 138
time_to_send(t) == (t - last_sent_time) > SPLUNK_UPDATE_INTERVAL

\* line 140
must_send(is_critical, t) == is_critical \/ time_to_send(t)

\* lines 141-147: the payload handed to send_event, built from the result v of
\* validate (the fields computed from the reading).
splunk_payload(v) ==
    [ status |-> v.status,
      oscillation_energy |-> v.oscillation_energy,
      message |-> IF v.status = "CRITICAL" THEN "PORPOISING DETECTED" ELSE "System Normal" ]

\* Mutation of last_sent_time_after: every processed reading restarts the
\* throttle window.
last_sent_time_after_any_reading(sent, t) == t

\* line 150 stands inside the "if" of line 140: last_sent_time becomes the
\* reading's current_time when the reading was sent, and is not assigned
\* otherwise.
last_sent_time_after(sent, t) == IF sent THEN t ELSE last_sent_time

\* lines 129-149: get a packet, validate it, decide, call send_event.
ValidationWorker_get(d) ==
    /\ DemoThreads
    /\ workerPc = "get"
    /\ worker_running
    /\ telemetry_queue # << >>
    /\ ClockOk(d)
    /\ LET item == Head(telemetry_queue) IN
       /\ telemetry_queue' = Tail(telemetry_queue)
       /\ data' = item
       /\ dequeued' = Append(dequeued, item.id)
       /\ IF ~item.pkt.isdict \/ ~item.pkt.rhnum
          THEN \* lines 107-108 raise; run() catches only queue.Empty
               /\ workerPc' = "dead"
               /\ UNCHANGED << verdict, now, current_time, forwards, posts,
                               last_forward_time, finished, last_sent_time >>
          ELSE /\ verdict' = [id |-> item.id] @@ validate(item.pkt)
               /\ now' = now + d
               /\ current_time' = now'
               /\ IF must_send(verdict'.status = "CRITICAL", current_time')
                  THEN \* line 149: send_event, lines 46-64
                       /\ forwards' = Append(forwards, item.id)
                       /\ posts' = Append(posts, item.id)
                       /\ last_forward_time' = current_time'
                       /\ workerPc' = "post"
                       /\ UNCHANGED << finished, last_sent_time >>
                  ELSE /\ finished' = finished \cup {item.id}
                       /\ last_sent_time' = last_sent_time_after(FALSE, current_time')
                       /\ UNCHANGED << workerPc, forwards, posts,
                                       last_forward_time >>
    /\ UNCHANGED << service, bind_failed, mainPc, prodVars, ingestor_running, ingestorPc,
                    worker_running, received, accepted,
                    rejected, evicted, dropped, classified, nclassified >>

\* lines 62-64 and 150-154: requests.post returned or raised (swallowed).
ValidationWorker_post_returns ==
    /\ DemoThreads
    /\ workerPc = "post"
    /\ last_sent_time' = last_sent_time_after(TRUE, current_time)
    /\ finished' = finished \cup {data.id}
    /\ workerPc' = "get"
    /\ UNCHANGED << service, bind_failed, mainPc, data, verdict, now, prodVars,
                    telemetry_queue, ingestor_running, ingestorPc,
                    worker_running, current_time, received, accepted,
                    rejected, evicted, dropped, dequeued, classified,
                    nclassified, forwards, posts, last_forward_time >>

\* lines 156-157: get(timeout=1.0) raised queue.Empty.
ValidationWorker_empty ==
    /\ DemoThreads
    /\ workerPc = "get"
    /\ worker_running
    /\ telemetry_queue = << >>
    /\ UNCHANGED vars

\* line 127: the loop test fails after stop().
ValidationWorker_exit ==
    /\ DemoThreads
    /\ workerPc = "get"
    /\ ~worker_running
    /\ workerPc' = "done"
    /\ UNCHANGED << service, bind_failed, mainPc, data, verdict, now, prodVars, demoVars,
                    histVars >>

\* -------------------------------------------------------------- Next ----
Next ==
    \/ main_start
    \/ main_bind_fails
    \/ \E pkt \in Datagrams, d \in ClockSteps : main_recv(pkt, d)
    \/ main_recv_error
    \/ main_keyboard_interrupt
    \/ processing_worker_empty
    \/ \E d \in ClockSteps : processing_worker_get(d)
    \/ \E r \in {"200", "rejected", "exception"}, d \in ClockSteps :
           processing_worker_post_returns(r, d)
    \/ demo_start
    \/ demo_bind_fails
    \/ demo_keyboard_interrupt
    \/ demo_joined
    \/ \E pkt \in DemoDatagrams : TelemetryIngestor_run(pkt)
    \/ TelemetryIngestor_timeout
    \/ TelemetryIngestor_exit
    \/ \E d \in DemoClockSteps : ValidationWorker_get(d)
    \/ ValidationWorker_post_returns
    \/ ValidationWorker_empty
    \/ ValidationWorker_exit

Spec == Init /\ [][Next]_vars

\* Scheduling.  Each thread that can take a step is eventually scheduled, and
\* every blocking call of a thread is bounded (get: 1 s, recvfrom of the demo
\* ingestor: 0.2 s, post: 0.5 s / 0.1 s), so a thread's step that stays
\* possible is eventually taken.  Nothing is assumed of the network (whether
\* datagrams arrive) nor of the operator (whether the service is interrupted).
Fairness ==
    /\ WF_vars(\E d \in ClockSteps : processing_worker_get(d))
    /\ WF_vars(\E r \in {"200", "rejected", "exception"}, d \in ClockSteps :
                   processing_worker_post_returns(r, d))
    /\ WF_vars(TelemetryIngestor_exit)
    /\ WF_vars(\E d \in DemoClockSteps : ValidationWorker_get(d))
    /\ WF_vars(ValidationWorker_post_returns)
    /\ WF_vars(ValidationWorker_exit)
    /\ WF_vars(demo_joined)

FairSpec == Spec /\ Fairness

\* The datagrams of the production-only specification: one that is
\* forwarded and one for each way the worker gives a datagram up.
ProdDatagrams ==
    { p \in Datagrams : p.len # 35 /\ ( p \in WellFormed => p.vz = 470 /\ p.temp = 1050 ) }

\* The production service alone: the steps of main() and of
\* processing_worker, with the clock moving in the worker's steps.
ProdNext ==
    \/ main_start
    \/ main_bind_fails
    \/ \E pkt \in ProdDatagrams : main_recv(pkt, 0)
    \/ main_recv_error
    \/ main_keyboard_interrupt
    \/ processing_worker_empty
    \/ \E d \in ClockSteps : processing_worker_get(d)
    \/ \E r \in {"200", "rejected", "exception"}, d \in ClockSteps :
           processing_worker_post_returns(r, d)

\* processing_worker is a thread of its own (line 193) and every request
\* has timeout=0.5 (line 96): the worker's steps are taken when enabled.
ProdFairSpec ==
    /\ Init
    /\ [][ProdNext]_vars
    /\ WF_vars(\E d \in ClockSteps : processing_worker_get(d))
    /\ WF_vars(\E r \in {"200", "rejected", "exception"}, d \in ClockSteps :
                   processing_worker_post_returns(r, d))

\* ------------------------------------------- the energy functions -------
\* The value of a float field of a datagram: struct.unpack('<d10sffff')
\* returns whatever the four bytes encode, a number, an infinity or a NaN.
Num(n) == [cls |-> "num", v |-> n]
PosInf == [cls |-> "inf", v |-> 1]
NegInf == [cls |-> "inf", v |-> -1]
NaN == [cls |-> "nan", v |-> 0]

FloatValues == {Num(10 * n) : n \in (-VzBound)..VzBound} \cup {PosInf, NegInf, NaN}

\* lines 80-81 on any float: 0.5 * CAR_MASS_KG * (vz ** 2).  NaN ** 2 is NaN,
\* an infinity squared is +infinity.
calculate_vertical_energy_ieee(vz) ==
    CASE vz.cls = "nan" -> NaN
      [] vz.cls = "inf" -> PosInf
      [] OTHER -> Num(calculate_vertical_energy(vz.v))

\* x >= 0 on floats: every comparison with NaN is false.
float_ge_zero(x) ==
    \/ x.cls = "num" /\ x.v >= 0
    \/ x.cls = "inf" /\ x.v > 0

\* line 140 applied to the vert_vel field of one datagram.
energy_of_reading(vz) ==
    /\ service = "prod"
    /\ mainPc = "start"
    /\ data' = [id |-> 1, pkt |-> [vz |-> vz]]
    /\ verdict' = [id |-> 1, vert_vel |-> vz,
                   energy_joules |-> calculate_vertical_energy_ieee(vz)]
    /\ UNCHANGED << service, bind_failed, mainPc, workerPc, now, prodVars,
                    demoVars, histVars >>

\* demo lines 107-108 applied to the ride_height_raw of one packet.
oscillation_energy_of(rh) ==
    /\ service = "demo"
    /\ mainPc = "start"
    /\ data' = [id |-> 1, pkt |-> [rh |-> rh]]
    /\ verdict' = [id |-> 1] @@ validate([rh |-> rh])
    /\ UNCHANGED << service, bind_failed, mainPc, workerPc, now, prodVars,
                    demoVars, histVars >>

EnergyNext ==
    \/ \E vz \in FloatValues : energy_of_reading(vz)
    \/ \E rh \in (-VzBound)..VzBound : oscillation_energy_of(10 * rh)

EnergySpec == Init /\ [][EnergyNext]_vars

\* -------------------------------------------------- the packet codec ----
\* Bytes are numbers, 0 is the NUL byte.  A reading is what the simulator
\* hands to struct.pack: a timestamp, an identifier (a byte string) and four
\* Python floats.
FloatFieldValues == { -8, -6, 3, 8 }
CarIds ==
    { << >>, <<67>>, <<67, 49>>,
      <<67, 65, 82, 95, 56, 49>>,
      <<67, 65, 82, 95, 48, 48, 48, 48, 56, 49>> }
Readings34 ==
    [ timestamp : {1234567}, car_id : CarIds, speed : FloatFieldValues,
      ride_height : {3, 8}, vert_vel : FloatFieldValues,
      engine_temp : {-6, 8} ]

\* bytes.ljust(width, b'\x00')
ljust(s, width) ==
    IF Len(s) >= width THEN s
    ELSE s \o [i \in 1..(width - Len(s)) |-> 0]

\* struct.pack of a '10s' field: truncated or NUL-padded to the width.
pack_10s(s) == [i \in 1..ID_FIELD_WIDTH |-> IF i <= Len(s) THEN s[i] ELSE 0]

\* struct.pack of an 'f' field: the nearest float32, ties to even.
pack_f(x) ==
    LET q == x \div F32_SPACING
        r == x % F32_SPACING
    IN  IF 2 * r > F32_SPACING \/ (2 * r = F32_SPACING /\ q % 2 = 1)
        THEN (q + 1) * F32_SPACING
        ELSE q * F32_SPACING

\* simulator lines 85, 88: struct.pack('<d10sffff', t, id.ljust(10, NUL), ...)
encode(r) ==
    [ d |-> r.timestamp,
      s |-> pack_10s(ljust(r.car_id, ID_FIELD_WIDTH)),
      f |-> << pack_f(r.speed), pack_f(r.ride_height),
               pack_f(r.vert_vel), pack_f(r.engine_temp) >> ]

\* len(data) of a packet: 8 + 10 + 4 * 4
packet_len(p) == 8 + Len(p.s) + 4 * Len(p.f)

\* Mutation of strip_nul: the identifier field is returned as it is.
strip_nothing(s) == s

RECURSIVE lstrip_nul(_)
lstrip_nul(s) ==
    IF s # << >> /\ Head(s) = 0 THEN lstrip_nul(Tail(s)) ELSE s

RECURSIVE rstrip_nul(_)
rstrip_nul(s) ==
    IF s # << >> /\ s[Len(s)] = 0 THEN rstrip_nul(SubSeq(s, 1, Len(s) - 1)) ELSE s

\* line 134: .strip('\x00') removes the NULs at both ends.
strip_nul(s) == lstrip_nul(rstrip_nul(s))

\* lines 127-138: the worker's locals after unpacking, or nothing when the
\* length is not that of the format.
decode(p) ==
    IF packet_len(p) # PACKET_SIZE
    THEN [ error |-> "BadLength" ]
    ELSE [ timestamp |-> p.d,
           car_id |-> strip_nul(p.s),
           speed |-> p.f[1],
           ride_height |-> p.f[2],
           vert_vel |-> p.f[3],
           engine_temp |-> p.f[4] ]

\* One reading is packed by the simulator and unpacked by the worker.
round_trip(r) ==
    /\ service = "prod"
    /\ mainPc = "start"
    /\ data' = [id |-> 1, pkt |-> r]
    /\ verdict' = [id |-> 1, packet |-> encode(r), reading |-> decode(encode(r))]
    /\ UNCHANGED << service, bind_failed, mainPc, workerPc, now, prodVars,
                    demoVars, histVars >>

CodecNext == \E r \in Readings34 : round_trip(r)

CodecSpec == Init /\ [][CodecNext]_vars

\* ============================================================ claims ====
Ids(q) == [i \in DOMAIN q |-> q[i].id]

\* C1: tail drop.  A datagram received while PACKET_QUEUE holds MaxSize items
\* is discarded and the queue (items and order) is left as it was.
C1_TailDropKeepsQueue ==
    [][ ( /\ service = "prod"
          /\ received' = received + 1
          /\ Len(PACKET_QUEUE) = MaxSize )
        => ( /\ PACKET_QUEUE' = PACKET_QUEUE
             /\ dropped' = dropped \cup {received'} ) ]_vars

\* A datagram was dropped and the queue still holds the MaxSize datagrams
\* that arrived before it.
C1_Witness ==
    /\ service = "prod"
    /\ Len(PACKET_QUEUE) = MaxSize
    /\ \E n \in dropped : \A i \in DOMAIN PACKET_QUEUE : PACKET_QUEUE[i].id < n

\* C2: the production queue never holds more than its capacity, whatever the
\* interleaving of main() and the worker.
C2_QueueBounded == Len(PACKET_QUEUE) <= MaxSize

\* The queue is full again after the worker has taken datagrams from it.
C2_Witness ==
    /\ Len(PACKET_QUEUE) = MaxSize
    /\ Len(dequeued) > 0
    /\ dropped # {}

\* C3 as stated: with nothing dequeued, after MaxSize + k datagrams the
\* queue holds MaxSize items and the most recent datagram is among them.
C3_MostRecentRetained ==
    ( service = "prod" /\ dequeued = << >> /\ received > MaxSize )
    => ( /\ Len(PACKET_QUEUE) = MaxSize
         /\ \E i \in DOMAIN PACKET_QUEUE : PACKET_QUEUE[i].id = received )

\* C3 amended: with nothing dequeued, after MaxSize + k datagrams the queue
\* holds exactly the first MaxSize datagrams, in arrival order; every later
\* one, the most recent included, was dropped.
C3_OldestRetained ==
    ( service = "prod" /\ dequeued = << >> /\ received > MaxSize )
    => ( /\ Ids(PACKET_QUEUE) = [i \in 1..MaxSize |-> i]
         /\ dropped = (MaxSize + 1)..received )

\* Two datagrams more than the capacity arrived and nothing was dequeued.
C3_Witness ==
    /\ service = "prod"
    /\ dequeued = << >>
    /\ received >= MaxSize + 2

\* C4 as stated: every datagram put on the queue is dequeued at most once
\* and none is lost or reordered: the dequeued datagrams followed by the
\* queued ones are the accepted ones, in the order they were accepted.
C4_ExactlyOnceFifo ==
    dequeued \o (IF service = "prod" THEN Ids(PACKET_QUEUE) ELSE Ids(telemetry_queue))
        = accepted

\* C4 for the production service alone.
C4_ProdExactlyOnceFifo ==
    service = "prod" => dequeued \o Ids(PACKET_QUEUE) = accepted

\* C5: wherever the worker is, and with the queue full, the ingest step can
\* be taken for any datagram (as long as the socket delivers one).
C5_IngestorNeverBlocked ==
    /\ ( service = "prod" /\ mainPc = "loop" /\ received < MaxRecv )
       => \A pkt \in Datagrams : ENABLED main_recv(pkt, 0)
    /\ ( DemoThreads /\ ingestorPc = "run" /\ ingestor_running /\ received < MaxRecv )
       => \A pkt \in DemoDatagrams : ENABLED TelemetryIngestor_run(pkt)

\* The queue is full, the worker is inside http_session.post, and the socket
\* can deliver another datagram.
C5_Witness ==
    /\ service = "prod"
    /\ mainPc = "loop"
    /\ Len(PACKET_QUEUE) = MaxSize
    /\ workerPc = "post"
    /\ received < MaxRecv

\* C6: thermal_mode is HIGH_COMPRESSION exactly when engine_temp > 105.0,
\* STANDARD otherwise (105.0 itself is STANDARD).
C6_ThermalMode ==
    \A o \in classified :
        /\ o.thermal_mode = "HIGH_COMPRESSION" <=> o.engine_temp > 1050
        /\ o.thermal_mode = "STANDARD" <=> o.engine_temp <= 1050

\* Readings at 105.0 and above it have been classified.
C6_Witness ==
    /\ \E o \in classified : o.engine_temp = 1050 /\ o.thermal_mode = "STANDARD"
    /\ \E o \in classified : o.engine_temp > 1050 /\ o.thermal_mode = "HIGH_COMPRESSION"

C8_StandardStatus ==
    /\ \A o \in classified :
          o.engine_temp <= 1050 =>
              /\ o.compliance_status = "VIOLATION_RISK" <=> o.energy_joules > 100000000
              /\ o.compliance_status = "LEGAL" <=> o.energy_joules <= 100000000
    /\ ( service = "prod" /\ data.id # 0 /\ data.pkt.len = 34 /\ data.pkt.idok )
       => ( /\ verdict.id = data.id
            /\ verdict.compliance_status \in
                   {"LEGAL", "VIOLATION_RISK", "CRITICAL: TORQUE_ANOMALY"} )

\* A cool reading between 80 J and 100 J was classified LEGAL and a cool
\* reading above 100 J VIOLATION_RISK.
C8_Witness ==
    /\ \E o \in classified :
          /\ o.engine_temp <= 1050
          /\ o.energy_joules > 80000000 /\ o.energy_joules <= 100000000
          /\ o.compliance_status = "LEGAL"
    /\ \E o \in classified :
          /\ o.engine_temp <= 1050
          /\ o.energy_joules > 100000000
          /\ o.compliance_status = "VIOLATION_RISK"

\* C9: readings with the same (vertical velocity, engine temperature) got the
\* same energy, thermal mode and status, whatever was processed before them
\* and whatever the clock and the log timestamps were.
C9_ClassificationDependsOnReadingOnly ==
    \A a \in classified : \A b \in classified :
        ( a.vert_vel = b.vert_vel /\ a.engine_temp = b.engine_temp ) => a = b

\* The same reading was classified twice, after another reading with a
\* different status, and the log timestamps moved in between.
C9_Witness ==
    /\ nclassified > Cardinality(classified)
    /\ Cardinality({o.compliance_status : o \in classified}) > 1
    /\ last_error_log_time > StartTime

\* C10 as stated: once the worker is done with a reading whose status is not
\* LEGAL (demo: CRITICAL), send_to_splunk / send_event has been called for it.
C10_NonLegalForwarded ==
    ( /\ verdict.id # 0
      /\ verdict.id \in finished
      /\ IF service = "prod"
         THEN verdict.compliance_status # "LEGAL"
         ELSE verdict.status = "CRITICAL" )
    => \E i \in DOMAIN forwards : forwards[i] = verdict.id

\* C11 as stated: a LEGAL (demo: STABLE) reading is forwarded only when more
\* than the minimum interval of 100 ms has passed since the previous forward
\* call.  The production clock counts seconds, the demo clock 10 ms.
C11_LegalForwardThrottled ==
    [][ ( /\ Len(forwards') > Len(forwards)
          /\ IF service = "prod"
             THEN verdict'.compliance_status = "LEGAL"
             ELSE verdict'.status = "STABLE" )
        => IF service = "prod"
           THEN 10 * (last_forward_time' - last_forward_time) > 1
           ELSE last_forward_time' - last_forward_time > SPLUNK_UPDATE_INTERVAL ]_vars

\* C11 for the demo service alone: a STABLE reading is forwarded only when
\* more than SPLUNK_UPDATE_INTERVAL has passed since the previous forward,
\* and a CRITICAL reading is forwarded whatever the time.
C11_DemoForwardThrottled ==
    [][ service = "demo" =>
          /\ ( Len(forwards') > Len(forwards) /\ verdict'.status = "STABLE" )
             => last_forward_time' - last_forward_time > SPLUNK_UPDATE_INTERVAL
          /\ ( Len(dequeued') > Len(dequeued) /\ workerPc' # "dead"
               /\ verdict'.status = "CRITICAL" )
             => Len(forwards') > Len(forwards) ]_vars

\* Demo: a STABLE reading was processed 10 ms after a forward and was not
\* forwarded; a CRITICAL reading is in flight less than the interval after
\* the previous forward.
C11_DemoWitness ==
    /\ service = "demo"
    /\ \/ /\ workerPc = "get" /\ verdict.id # 0 /\ verdict.status = "STABLE"
          /\ current_time - last_sent_time = 1
          /\ \A i \in DOMAIN forwards : forwards[i] # verdict.id
       \/ /\ workerPc = "post" /\ verdict.status = "CRITICAL"
          /\ current_time - last_sent_time = 1

\* C12: a dequeued datagram whose length is not 34 bytes is rejected whole:
\* the step that dequeues it decodes nothing (the worker's locals and the
\* classification record are untouched), makes no forward call and no HTTP
\* request, marks the task done and leaves the worker at its get, so the
\* worker goes on with the next datagram.
C12_BadLengthRejected ==
    [][ ( /\ service = "prod"
          /\ Len(dequeued') > Len(dequeued)
          /\ data'.pkt.len # 34 )
        => ( /\ verdict' = verdict
             /\ classified' = classified
             /\ nclassified' = nclassified
             /\ forwards' = forwards
             /\ posts' = posts
             /\ finished' = finished \cup {data'.id}
             /\ unfinished_tasks' = unfinished_tasks - 1
             /\ workerPc' = "get"
             /\ mainPc' = "loop" ) ]_vars

\* A datagram longer than 34 bytes was rejected after an earlier reading was
\* classified, and the next datagram, a shorter one, is waiting.
C12_Witness ==
    /\ service = "prod"
    /\ data.id # 0
    /\ data.pkt.len > 34
    /\ data.id \in finished
    /\ verdict.id # 0
    /\ verdict.id < data.id
    /\ PACKET_QUEUE # << >>
    /\ Head(PACKET_QUEUE).pkt.len < 34

\* C13 as stated: while the service has not been shut down, whatever
\* datagrams were received and processed, the ingest loop and the worker
\* loop are both still running.
C13_LoopsSurviveDatagrams ==
    mainPc = "loop" =>
        /\ workerPc \in {"get", "post"}
        /\ service = "demo" => ingestorPc = "run"

\* C13 for the production service alone, after datagrams of every kind
\* (wrong length, undecodable identifier, non-finite speed) and sends of
\* every outcome.
C13_ProdLoopsSurviveDatagrams ==
    ( service = "prod" /\ mainPc = "loop" ) => workerPc \in {"get", "post"}

\* C14: one send attempt per forwarded event and no retry.  A request is
\* issued only by the step that makes the forward call, for the datagram just
\* dequeued and never for one already sent; while a request is in flight no
\* further request is issued, and when it returns or fails, whatever the
\* outcome, the worker marks the datagram done and is back at its get with
\* the service still running.
C14_FailedSendNotRetried ==
    [][ /\ posts' # posts =>
             /\ posts' = Append(posts, data'.id)
             /\ forwards' = Append(forwards, data'.id)
             /\ Len(dequeued') > Len(dequeued)
             /\ \A i \in DOMAIN posts : posts[i] # data'.id
        /\ workerPc = "post" =>
             /\ posts' = posts
             /\ forwards' = forwards
             /\ ( workerPc' # "post" \/ finished' # finished ) =>
                    /\ workerPc' = "get"
                    /\ finished' = finished \cup {data.id}
                    /\ mainPc' = mainPc ]_vars

\* The first request failed (its error was logged) and the request for a
\* later datagram is now in flight.
C14_Witness ==
    /\ service = "prod"
    /\ SPLUNK_TOKEN # PLACEHOLDER_TOKEN
    /\ Len(posts) = 2
    /\ workerPc = "post"
    /\ last_error_log_time > 0
    /\ posts[1] \in finished

\* C15 as stated: once the service has been interrupted, the ingest loop has
\* stopped and, eventually, every worker has left its loop, also when the
\* queue is empty and no datagram arrives.
C15_ShutdownStopsLoops ==
    ( mainPc \in {"joining", "stopped"} ) ~>
        ( /\ service = "demo" => ingestorPc = "done"
          /\ workerPc \in {"done", "dead"} )

\* C15 for the demo service alone: after the interrupt the ingestor and the
\* worker both leave their loops and main's joins return.
C15_DemoShutdownStopsLoops ==
    ( service = "demo" /\ mainPc = "joining" ) ~>
        ( ingestorPc = "done" /\ workerPc \in {"done", "dead"} /\ mainPc = "stopped" )

\* Demo: the worker left its loop after the interrupt found it idle on an
\* empty queue with nothing received.
C15_DemoWitness ==
    /\ service = "demo"
    /\ mainPc = "stopped"
    /\ received = 0
    /\ workerPc = "done"
    /\ ingestorPc = "done"

\* C16 as stated: with the token missing (the default applies) or still the
\* placeholder, the service ends at startup: the receive loop is never
\* entered and no datagram is received, dequeued or processed.
C16_PlaceholderTokenFatal ==
    SPLUNK_TOKEN = PLACEHOLDER_TOKEN =>
        /\ mainPc \in {"start", "crashed"}
        /\ received = 0
        /\ dequeued = << >>
        /\ nclassified = 0

\* C17: when bind fails the service has stopped at startup: main is over, no
\* worker and no ingestor thread runs, nothing was received, queued, dequeued
\* or processed, and no further step (no second bind) is ever taken.
C17_BindFailureFatal ==
    [][ /\ bind_failed' =>
             /\ mainPc' = "crashed"
             /\ ~WorkerAlive' /\ ~DemoThreads'
             /\ received' = 0
             /\ accepted' = << >> /\ dequeued' = << >>
             /\ PACKET_QUEUE' = << >> /\ telemetry_queue' = << >>
             /\ nclassified' = 0 /\ forwards' = << >>
        /\ bind_failed => vars' = vars ]_vars

\* bind failed in the production service.
C17_Witness == service = "prod" /\ bind_failed /\ mainPc = "crashed"

\* C18 as stated: every item in the ingest queue is a datagram exactly as it
\* came from the socket, and the ingestor rejected no datagram because of its
\* content.
C18_QueueHoldsRawDatagrams ==
    /\ \A i \in DOMAIN PACKET_QUEUE : PACKET_QUEUE[i].pkt \in Datagrams
    /\ \A i \in DOMAIN telemetry_queue : telemetry_queue[i].pkt \in DemoDatagrams
    /\ rejected = {}

\* C18 for the production service alone: the queue holds datagrams as
\* received, and every datagram received was either queued or, the queue
\* being full, dropped, whatever its content.
C18_ProdQueueHoldsRawDatagrams ==
    service = "prod" =>
        /\ \A i \in DOMAIN PACKET_QUEUE : PACKET_QUEUE[i].pkt \in Datagrams
        /\ rejected = {}
        /\ {accepted[i] : i \in DOMAIN accepted} \cup dropped = 1..received

C20_EnergyNonNegative ==
    verdict.id # 0 =>
        IF service = "prod"
        THEN /\ float_ge_zero(verdict.energy_joules)
             /\ verdict.vert_vel.cls = "num" =>
                    verdict.energy_joules =
                        Num((CAR_MASS_KG * verdict.vert_vel.v * verdict.vert_vel.v) \div 2)
        ELSE verdict.oscillation_energy >= 0

\* C20 for the readings whose vertical velocity is not a NaN: the energy is
\* 0.5 * 798 * vz^2 (+infinity for an infinite vz) and is >= 0 whatever the
\* sign of vz.
C20_NumberEnergyNonNegative ==
    ( verdict.id # 0 /\ service = "prod" /\ verdict.vert_vel.cls # "nan" ) =>
        /\ float_ge_zero(verdict.energy_joules)
        /\ verdict.vert_vel.cls = "num" =>
               verdict.energy_joules =
                   Num((CAR_MASS_KG * verdict.vert_vel.v * verdict.vert_vel.v) \div 2)

\* The energy of a negative vertical velocity was computed.
C20_NegativeVelocityWitness ==
    /\ verdict.id # 0
    /\ service = "prod"
    /\ verdict.vert_vel.cls = "num"
    /\ verdict.vert_vel.v < 0
    /\ verdict.energy_joules.v > 0

\* C21 as stated: decoding the packet produced by encoding a reading yields
\* the reading again.
C21_RoundTrip ==
    verdict.id # 0 => verdict.reading = data.pkt

\* C21 amended: the packet has 34 bytes; decoding it yields the reading with
\* each of its four float fields rounded to the nearest float32, the
\* timestamp and the identifier unchanged; hence the reading itself when its
\* four float fields are float32 values.
C21_RoundTripFloat32 ==
    verdict.id # 0 =>
        LET r == data.pkt IN
        /\ packet_len(verdict.packet) = 34
        /\ verdict.reading =
               [ r EXCEPT !.speed = pack_f(r.speed),
                          !.ride_height = pack_f(r.ride_height),
                          !.vert_vel = pack_f(r.vert_vel),
                          !.engine_temp = pack_f(r.engine_temp) ]
        /\ ( \A x \in {r.speed, r.ride_height, r.vert_vel, r.engine_temp} :
                 x % F32_SPACING = 0 )
           => verdict.reading = r

\* A reading with a 6-byte identifier (padded with 4 NULs in the packet) and
\* float32 field values, one of them negative, came back unchanged.
C21_Witness ==
    /\ verdict.id # 0
    /\ Len(data.pkt.car_id) = 6
    /\ SubSeq(verdict.packet.s, 7, 10) = <<0, 0, 0, 0>>
    /\ data.pkt.vert_vel = -8
    /\ data.pkt.speed = 8 /\ data.pkt.ride_height = 8 /\ data.pkt.engine_temp = 8
    /\ verdict.reading = data.pkt

C23_SynchronousForwarding ==
    [][ /\ Len(dequeued') > Len(dequeued) => workerPc = "get"
        /\ Cardinality({dequeued'[i] : i \in DOMAIN dequeued'} \ finished') <= 1
        /\ workerPc' = "post" =>
               /\ data'.id = dequeued'[Len(dequeued')]
               /\ data'.id = forwards'[Len(forwards')]
               /\ data'.id \notin finished'
        /\ \A i \in DOMAIN forwards' : \A j \in DOMAIN forwards' :
               i < j =>
                 \E k \in DOMAIN dequeued' : \E l \in DOMAIN dequeued' :
                    /\ k < l
                    /\ dequeued'[k] = forwards'[i]
                    /\ dequeued'[l] = forwards'[j] ]_vars

\* The second forwarded datagram is being sent while the next datagram
\* waits in the queue.
C23_Witness ==
    /\ service = "prod"
    /\ workerPc = "post"
    /\ Len(forwards) = 2
    /\ PACKET_QUEUE # << >>
    /\ Len(dequeued) > Len(forwards)

\* C24: conservation of datagrams in the production service.  Every datagram
\* received so far is in exactly one of four places: dropped at enqueue,
\* still in the queue, held by the worker, or finished.
C24_Conservation ==
    service = "prod" =>
        LET queued == {PACKET_QUEUE[i].id : i \in DOMAIN PACKET_QUEUE}
            held   == IF workerPc = "post" THEN {data.id} ELSE {}
        IN  /\ dropped \cup queued \cup held \cup finished = 1..received
            /\ dropped \cap queued = {}
            /\ dropped \cap held = {}
            /\ dropped \cap finished = {}
            /\ queued \cap held = {}
            /\ queued \cap finished = {}
            /\ held \cap finished = {}
            /\ Cardinality(queued) = Len(PACKET_QUEUE)

\* All four places are occupied at once.
C24_Witness ==
    /\ service = "prod"
    /\ dropped # {}
    /\ PACKET_QUEUE # << >>
    /\ workerPc = "post"
    /\ finished # {}


\* C25: liveness of the production pipeline.  With the worker scheduled
\* fairly and every send returning, each datagram accepted into the queue
\* is eventually finished, whatever was queued ahead of it, for as long as
\* the process runs (the interrupt ends the process and the worker with it).
C25_AcceptedEventuallyFinished ==
    \A i \in 1..MaxRecv :
        ( service = "prod" /\ \E k \in DOMAIN accepted : accepted[k] = i )
            ~> ( i \in finished \/ mainPc = "stopped" )

\* A datagram that raised in the worker was finished without a forward, and
\* a datagram accepted after it has been sent and finished.
C25_Witness ==
    /\ service = "prod"
    /\ mainPc = "loop"
    /\ \E k \in DOMAIN accepted : \E l \in DOMAIN accepted :
          /\ k < l
          /\ accepted[k] \in finished
          /\ \A f \in DOMAIN forwards : forwards[f] # accepted[k]
          /\ accepted[l] \in finished
          /\ \E f \in DOMAIN posts : posts[f] = accepted[l]


\* C26: the security gate of the production forwarder.  While the token is
\* the placeholder no HTTP request is issued for any event: no request was
\* ever sent and none is in flight, and a step that hands an event to
\* send_to_splunk finishes that datagram and leaves the worker at its get.
C26_PlaceholderNeverPosts ==
    [][ ( service = "prod" /\ SPLUNK_TOKEN = PLACEHOLDER_TOKEN ) =>
          /\ posts' = << >>
          /\ workerPc' = "get"
          /\ Len(forwards') > Len(forwards) =>
                /\ forwards'[Len(forwards')] = data'.id
                /\ finished' = finished \cup {data'.id}
                /\ unfinished_tasks' = unfinished_tasks - 1 ]_vars

\* With the placeholder token two events were handed to send_to_splunk, both
\* datagrams are finished and no request was issued.
C26_Witness ==
    /\ service = "prod"
    /\ SPLUNK_TOKEN = PLACEHOLDER_TOKEN
    /\ Len(forwards) = 2
    /\ \A f \in DOMAIN forwards : forwards[f] \in finished
    /\ posts = << >>
    /\ workerPc = "get"


\* C27: the lag-clearing bound of the demo ingestor.  Right after an enqueue
\* by TelemetryIngestor.run the queue holds at most LagLimit + 1 packets and
\* the packet that just arrived is the last of them; when more than LagLimit
\* packets were queued at arrival, the new packet is the only one left.
C27_LagClearingBound ==
    [][ ( service = "demo" /\ Len(accepted') > Len(accepted) ) =>
          /\ Len(telemetry_queue') <= LagLimit + 1
          /\ telemetry_queue' # << >>
          /\ telemetry_queue'[Len(telemetry_queue')].id = received'
          /\ accepted'[Len(accepted')] = received'
          /\ Len(telemetry_queue) > LagLimit =>
                /\ Len(telemetry_queue') = 1
                /\ \A i \in DOMAIN telemetry_queue :
                      telemetry_queue[i].id \in evicted' ]_vars

\* The queue held LagLimit + 1 packets when one more arrived: they were all
\* removed and the new packet alone is queued.
C27_Witness ==
    /\ service = "demo"
    /\ Cardinality(evicted) = LagLimit + 1
    /\ Len(telemetry_queue) = 1
    /\ telemetry_queue[1].id = received
    /\ received = LagLimit + 2


\* C28: in the demo ValidationWorker last_sent_time changes only when a
\* forward was made, to the time of the forwarded reading, and a suppressed
\* reading leaves it unchanged; hence a reading processed more than
\* SPLUNK_UPDATE_INTERVAL after the last forward is forwarded, whatever
\* number of suppressed readings came in between.
C28_SuppressedKeepsWindow ==
    [][ service = "demo" =>
          /\ last_sent_time' # last_sent_time =>
                /\ workerPc = "post"
                /\ forwards # << >>
                /\ forwards[Len(forwards)] = data.id
                /\ last_sent_time' = last_forward_time
          /\ ( /\ Len(dequeued') > Len(dequeued)
               /\ workerPc' # "dead"
               /\ forwards' = forwards ) =>
                last_sent_time' = last_sent_time
          /\ ( /\ Len(dequeued') > Len(dequeued)
               /\ workerPc' # "dead"
               /\ forwards # << >>
               /\ current_time' - last_forward_time > SPLUNK_UPDATE_INTERVAL ) =>
                /\ Len(forwards') = Len(forwards) + 1
                /\ forwards'[Len(forwards')] = data'.id ]_vars

\* A non-critical reading is being forwarded because more than the interval
\* passed since the first forward, although the reading between the two was
\* suppressed less than the interval before it.
C28_Witness ==
    /\ service = "demo"
    /\ workerPc = "post"
    /\ Len(dequeued) = 3
    /\ forwards = << dequeued[1], dequeued[3] >>
    /\ dequeued[2] \in finished
    /\ verdict.status = "STABLE"
    /\ current_time - last_sent_time = SPLUNK_UPDATE_INTERVAL + 1



=============================================================================
